---- MODULE Spec2Model ----
(***************************************************************************)
(* Model of the stats-agent-team orchestration engine and its worker       *)
(* contracts.  Two orchestrators are modelled: the Eino graph              *)
(* (EinoOrchestrationAgent, pkg/orchestration) and the ADK loop            *)
(* (OrchestrationAgent, agents/orchestration).  Worker calls go through    *)
(* httpclient.PostJSON; the Verification worker is verifyStatistic/Verify. *)
(***************************************************************************)
EXTENDS Integers, Sequences, FiniteSets, TLC

\* ------------------------------------------------------------------ bounds
MaxTarget == 2      \* largest min_verified_stats a request carries
MaxCand == 2        \* largest max_candidates a request carries
MaxResults == 1     \* longest list of sources the Research worker returns
MaxSynth == 2       \* longest mixed candidate list the Synthesis worker returns
MaxPerPage == 4     \* most statistics the Synthesis worker extracts from one page
MaxVerify == 2      \* longest candidate list one verification request carries
MaxPages == 2       \* longest list of search results one synthesis request carries
MaxItems == 2       \* most items the LLM lists for one page
MaxA2A == 1        \* agents of a values file that configure an A2A port

\* ------------------------------------------------------- program constants
DefaultMinVerifiedStats == 10
DefaultMaxCandidates == 30
maxRetries == 3
MinBuffer == 5
StatusOK == 200
StatusBadRequest == 400
StatusInternalServerError == 500
StatusMethodNotAllowed == 405
contextWindow == 500
minPagesToProcess == 15
EarlyStopFactor == 5
SynthDefaultMin == 5
SynthDefaultMax == 20
MaxPortNumber == 65535               \* ServiceConfig: max=65535

\* ------------------------------------------------------------ value domains
Handlers == {"h1", "h2"}
Impls == {"eino", "adk"}
Topics == {"", "energy"}
URLs == {"u1", "u2"}
\* text is a sequence of characters; a page is its body or the error of the
\* fetch (a status other than 200, a transport error)
FetchFailed == <<"HTTP 404">>
FetchRefused == <<"failed to fetch URL">>
FetchErrors == {FetchFailed, FetchRefused}
Bodies == {<<"1", "x", "1">>, <<"x", "y", "1">>}
Excerpts == {<<"x", "1">>}
\* CandidateStatistic.Value; 1 is printed on every page, 2 on none
Values == 0..2
Workers == {"research", "synthesis", "verification"}
Outcomes == {"ok", "transport_error", "status_503", "bad_body"}

SeqsUpTo(S, n) == UNION {[1..k -> S] : k \in 0..n}

\* requests; the topic is only echoed, so the empty topic is tried with the
\* smallest explicit target and with every max_candidates; the default
\* max_candidates is tried with the default and the smallest explicit target
Requests ==
  {r \in [topic : Topics, min : 0..MaxTarget, max : 0..MaxCand] :
     /\ r.topic = "" => r.min = 1
     /\ r.max = 0 => r.min <= 1}
\* the candidates that travel through the pipeline
Candidates == [source_url : URLs, excerpt : Excerpts, value : {1}]
\* the candidates a verification request may carry
WorkerCandidates == [source_url : URLs, excerpt : Excerpts, value : Values]
\* the same for the trpc verification agent, whose models carry the value as text
TrpcCandidates == [source_url : URLs, excerpt : Excerpts, value : {<<"1">>, <<"2">>}]
\* what the trpc agent's LLM run may give back: an error, text that is not
\* JSON, or a JSON verdict
LLMAnswers ==
  [kind : {"run_error", "bad_json"}, verified : {FALSE}, reason : {<<>>}]
    \cup [kind : {"json"}, verified : BOOLEAN, reason : {<<>>, <<"Looks plausible">>}]
\* the items the Synthesis worker's LLM may list for a page (StatExtraction)
Extractions == [value : 0..1, excerpt : {<<>>} \cup Excerpts]
\* what the LLM call for a page gives back: an error or a list of items
LLMPageOutputs == {<<"error">>} \cup {<<"items", l>> : l \in SeqsUpTo(Extractions, MaxItems)}
\* synthesis requests as they are decoded
\* what the LLM gives back for the page of each URL: every page alike, or
\* nothing found on u2
LLMOutputs ==
  {f \in [URLs -> LLMPageOutputs] :
     f["u2"] = f["u1"] \/ f["u2"] = <<"items", <<>> >>}
\* result lists long enough for Synthesize to stop early: u1 first and u2
\* after it, or u1 throughout
LongResults ==
  {[i \in 1..n |-> IF i = 1 \/ all THEN "u1" ELSE "u2"] :
     n \in minPagesToProcess..(minPagesToProcess + MaxPages), all \in BOOLEAN}
SynthesisRequests ==
  [searchResults : SeqsUpTo(URLs, MaxPages), MinStatistics : 0..1, MaxStatistics : 0..1]
LongSynthesisRequests ==
  [searchResults : LongResults, MinStatistics : 0..1, MaxStatistics : 0..1]
\* the LLM answers every page alike
UniformLLMOutputs == {f \in LLMOutputs : f["u1"] = f["u2"]}
\* how a request reaches a worker's HTTP handler
Arrivals == {"ok", "bad_method", "bad_body"}
\* the web a worker sees: any page behind any URL
AllWorlds == [URLs -> Bodies \cup FetchErrors]
\* the web of a pipeline run: u1 serves a page that holds the excerpt; u2
\* serves a page without it or cannot be fetched
Worlds ==
  {w \in [URLs -> Bodies \cup {FetchFailed}] :
     w["u1"] = <<"1", "x", "1">> /\ w["u2"] # <<"1", "x", "1">>}

\* ---- Helm values (pkg/helm/values.go)
AgentNames == {"research", "synthesis", "verification", "orchestration", "direct"}
\* service.port and service.a2aPort; 0 is "not configured"
ServicePorts == {0, 8001, 8002}
A2APorts == {0, 8002}
AgentConfigs == [enabled : BOOLEAN, port : ServicePorts, a2aPort : A2APorts]
IngressConfigs ==
  {[enabled |-> FALSE, host |-> ""], [enabled |-> TRUE, host |-> ""],
   [enabled |-> TRUE, host |-> "stats.example.com"]}
\* values files in which at most MaxA2A agents configure an A2A port
HelmValues ==
  {v \in [research : AgentConfigs, synthesis : AgentConfigs,
          verification : AgentConfigs, orchestration : AgentConfigs,
          direct : AgentConfigs, ingress : IngressConfigs] :
     Cardinality({n \in AgentNames : v[n].a2aPort > 0}) <= MaxA2A}

VARIABLES proc, pages, call

vars == <<proc, pages, call>>

\* ---------------------------------------------------------- pure functions

\* strings.Contains: sub occurs in s as a contiguous run
Contains(s, sub) ==
  \E i \in 0..(Len(s) - Len(sub)) : SubSeq(s, i + 1, i + Len(sub)) = sub

\* FetchURL that hands back an empty body when the fetch fails
FetchURLEmptyOnError(url) ==
  IF pages[url] \in FetchErrors
    THEN [err |-> FALSE, body |-> <<>>, msg |-> ""]
    ELSE [err |-> FALSE, body |-> pages[url], msg |-> ""]

\* BaseAgent.FetchURL against the web as it is during the request
FetchURL(url) ==
  IF pages[url] \in FetchErrors
    THEN [err |-> TRUE, body |-> <<>>, msg |-> pages[url][1]]
    ELSE [err |-> FALSE, body |-> pages[url], msg |-> ""]

\* verifyStatistic without the excerpt check: any fetched source verifies
verifyStatisticNoExcerptCheck(candidate) ==
  LET f == FetchURL(candidate.source_url) IN
  [statistic |-> [source_url |-> candidate.source_url,
                  excerpt |-> candidate.excerpt,
                  value |-> candidate.value,
                  verified |-> ~f.err],
   verified |-> ~f.err,
   reason |-> IF f.err THEN <<"Failed to fetch source: ", f.msg>> ELSE <<>>]

\* VerificationAgent.verifyStatistic; a reason is the sequence of its pieces,
\* the empty string is <<>>
verifyStatistic(candidate) ==
  LET f == FetchURL(candidate.source_url) IN
  IF f.err
    THEN [statistic |-> [source_url |-> candidate.source_url,
                         excerpt |-> candidate.excerpt,
                         value |-> candidate.value,
                         verified |-> FALSE],
          verified |-> FALSE,
          reason |-> <<"Failed to fetch source: ", f.msg>>]
    ELSE LET verified == Contains(f.body, candidate.excerpt) IN
         [statistic |-> [source_url |-> candidate.source_url,
                         excerpt |-> candidate.excerpt,
                         value |-> candidate.value,
                         verified |-> verified],
          verified |-> verified,
          reason |-> IF verified THEN <<>>
                     ELSE <<"Excerpt not found in source content">>]

RECURSIVE CountVerified(_)
CountVerified(results) ==
  IF results = <<>> THEN 0
  ELSE (IF results[Len(results)].verified THEN 1 ELSE 0)
       + CountVerified(SubSeq(results, 1, Len(results) - 1))

\* Verify that lists the verified results first
VerifyFailedLast(candidates) ==
  LET each == [i \in 1..Len(candidates) |-> verifyStatistic(candidates[i])]
      results == SelectSeq(each, LAMBDA r : r.verified)
                   \o SelectSeq(each, LAMBDA r : ~r.verified) IN
  [results |-> results,
   verified |-> CountVerified(results),
   failed |-> Len(results) - CountVerified(results)]

\* VerificationAgent.Verify
Verify(candidates) ==
  LET results == [i \in 1..Len(candidates) |-> verifyStatistic(candidates[i])] IN
  [results |-> results,
   verified |-> CountVerified(results),
   failed |-> Len(results) - CountVerified(results)]

\* the statistics of the verified results, in result order
RECURSIVE VerifiedOf(_)
VerifiedOf(results) ==
  IF results = <<>> THEN <<>>
  ELSE LET rest == VerifiedOf(SubSeq(results, 1, Len(results) - 1))
           last == results[Len(results)] IN
       IF last.verified THEN Append(rest, last.statistic) ELSE rest

\* ---- the Synthesis worker (agents/synthesis/main.go)

\* the conversion loop of extractStatisticsWithLLM that keeps items without
\* an excerpt
extractStatisticsKeepsNoExcerpt(url, extractions) ==
  LET kept == SelectSeq(extractions, LAMBDA ext : ~(ext.value = 0)) IN
  [i \in 1..Len(kept) |->
     [source_url |-> url, excerpt |-> kept[i].excerpt, value |-> kept[i].value]]

\* extractStatisticsWithLLM: "Convert to CandidateStatistic"
extractStatisticsWithLLM(url, extractions) ==
  LET kept == SelectSeq(extractions,
                        LAMBDA ext : ~(ext.value = 0 \/ ext.excerpt = <<>>)) IN
  [i \in 1..Len(kept) |->
     [source_url |-> url, excerpt |-> kept[i].excerpt, value |-> kept[i].value]]

\* the loop of Synthesize from search result i on; llm is what the LLM gives
\* back for the page of each URL
RECURSIVE SynthesizeFrom(_, _, _, _, _)
SynthesizeFrom(req, llm, i, candidates, pagesProcessed) ==
  IF i > Len(req.searchResults) THEN candidates
  ELSE IF /\ Len(candidates) >= req.MaxStatistics
          /\ req.MaxStatistics > 0
          /\ pagesProcessed >= minPagesToProcess
    THEN candidates
  ELSE IF FetchURL(req.searchResults[i]).err
          \/ llm[req.searchResults[i]][1] = "error"
    THEN SynthesizeFrom(req, llm, i + 1, candidates, pagesProcessed)
  ELSE LET stats == extractStatisticsWithLLM(req.searchResults[i],
                                           llm[req.searchResults[i]][2])
           more == candidates \o stats IN
       IF /\ Len(more) >= req.MinStatistics * EarlyStopFactor
          /\ pagesProcessed + 1 >= minPagesToProcess
         THEN more
         ELSE SynthesizeFrom(req, llm, i + 1, more, pagesProcessed + 1)

\* Synthesize that does not wait for a minimum number of pages
SynthesizeWithoutMinPages(req, llm) ==
  SynthesizeFrom(req, llm, 1, <<>>, minPagesToProcess)

\* SynthesisAgent.Synthesize
Synthesize(req, llm) == SynthesizeFrom(req, llm, 1, <<>>, 0)

\* HandleSynthesisRequest: "Set defaults"
synthesisDefaults(req) ==
  [req EXCEPT !.MinStatistics = IF @ = 0 THEN SynthDefaultMin ELSE @,
              !.MaxStatistics = IF @ = 0 THEN SynthDefaultMax ELSE @]

\* ---- the trpc verification agent (agents/verification/main.go)

\* strings.Index: offset of the first occurrence of sub in s, -1 if none
Index(s, sub) ==
  IF Contains(s, sub)
    THEN CHOOSE i \in 0..(Len(s) - Len(sub)) :
           /\ SubSeq(s, i + 1, i + Len(sub)) = sub
           /\ \A j \in 0..(i - 1) : SubSeq(s, j + 1, j + Len(sub)) # sub
    ELSE -1

\* VerificationAgent.fetchSourceContent
fetchSourceContent(url) ==
  IF pages[url] \in FetchErrors
    THEN [err |-> TRUE, body |-> <<>>, msg |-> pages[url][1]]
    ELSE [err |-> FALSE, body |-> pages[url], msg |-> ""]

\* VerificationAgent.verifyWithLLM; answer is what agent.Run gives back when
\* the fallback is used
verifyWithLLM(candidate, sourceContent, answer) ==
  IF Contains(sourceContent, candidate.excerpt)
    THEN LET excerptIndex == Index(sourceContent, candidate.excerpt)
             start == IF excerptIndex - contextWindow > 0
                        THEN excerptIndex - contextWindow ELSE 0
             stop == excerptIndex + Len(candidate.excerpt) + contextWindow
             end == IF stop < Len(sourceContent) THEN stop ELSE Len(sourceContent)
             context == SubSeq(sourceContent, start + 1, end) IN
         IF Contains(context, candidate.value)
           THEN [verified |-> TRUE, reason |-> <<>>]
           ELSE [verified |-> FALSE, reason |-> <<"Value not found in excerpt context">>]
    ELSE CASE answer.kind = "run_error" ->
                [verified |-> FALSE,
                 reason |-> <<"LLM verification failed: ", "llm unavailable">>]
           [] answer.kind = "bad_json" ->
                [verified |-> FALSE,
                 reason |-> <<"Excerpt not found in source content">>]
           [] OTHER ->
                [verified |-> answer.verified, reason |-> answer.reason]

\* VerificationAgent.VerifyStatistic of the trpc agent
VerifyStatistic(candidate, answer) ==
  LET f == fetchSourceContent(candidate.source_url) IN
  IF f.err
    THEN [statistic |-> [source_url |-> candidate.source_url,
                         excerpt |-> candidate.excerpt,
                         value |-> candidate.value,
                         verified |-> FALSE],
          verified |-> FALSE,
          reason |-> <<"Failed to fetch source: ", f.msg>>]
    ELSE LET v == verifyWithLLM(candidate, f.body, answer) IN
         [statistic |-> [source_url |-> candidate.source_url,
                         excerpt |-> candidate.excerpt,
                         value |-> candidate.value,
                         verified |-> v.verified],
          verified |-> v.verified,
          reason |-> v.reason]

\* Verify of the trpc agent that counts every result as failed
VerifyTrpcCountsAllFailed(candidates, answers) ==
  LET results == [i \in 1..Len(candidates) |->
                    VerifyStatistic(candidates[i], answers[i])] IN
  [results |-> results,
   verified |-> CountVerified(results),
   failed |-> Len(results)]

\* VerificationAgent.Verify of the trpc agent; answers[i] is the LLM's answer
\* for candidate i
VerifyTrpc(candidates, answers) ==
  LET results == [i \in 1..Len(candidates) |->
                    VerifyStatistic(candidates[i], answers[i])] IN
  [results |-> results,
   verified |-> CountVerified(results),
   failed |-> Len(results) - CountVerified(results)]

\* the statistics the Verification worker reported as verified in one answer
ReportedVerified(results) ==
  LET hits == SelectSeq(results, LAMBDA r : r.verified) IN
  [i \in 1..Len(hits) |-> hits[i].statistic]

\* httpclient.PostJSON: one client.Do; any transport error, status other
\* than 200 or undecodable body is an error
PostJSON(outcome) == IF outcome = "ok" THEN "nil" ELSE "error"

\* --------------------------------------------------------- worker outputs

\* what the Research worker may answer: a list of sources
ResearchOutputs == SeqsUpTo(URLs, MaxResults)

Range(s) == {s[i] : i \in 1..Len(s)}

\* what the Synthesis worker may answer for the given sources: candidates
\* whose source_url is one of the sources (extractStatisticsWithLLM).  The
\* list is not cut to the request's max_statistics: Synthesize appends all
\* the statistics of a page, so one page may yield up to MaxPerPage of them.
\* The long lists are tried in the runs whose request carries an explicit
\* max_candidates, the runs in which they exceed it
SynthOutputs(searchResults, maxCandidates) ==
  LET found == {c \in Candidates : c.source_url \in Range(searchResults)} IN
  SeqsUpTo(found, MaxSynth)
    \cup (IF maxCandidates <= MaxCand
           THEN {[i \in 1..MaxPerPage |-> c] : c \in found}
           ELSE {})

\* ------------------------------------------------------------ process state

Fresh(impl, req) ==
  [pc |-> "handler", impl |-> impl, req |-> req,
   searchResults |-> <<>>, candidates |-> <<>>, allCandidates |-> <<>>,
   verified |-> <<>>, failed |-> 0, totalVerified |-> 0,
   retry |-> 0, candidatesNeeded |-> 0,
   needMore |-> FALSE, shortfall |-> 0,
   resp |-> <<>>, status |-> 0,
   fingerprint |-> req,
   inflight |-> "none", attempts |-> 0, lastFailed |-> "none",
   researchCalls |-> 0, called |-> {}, stage |-> "none", researchOK |-> FALSE,
   seenVerified |-> <<>>]

Idle == [Fresh("eino", [topic |-> "", min |-> 0, max |-> 0]) EXCEPT !.pc = "idle"]

\* no worker handler has run
NoCall == [fn |-> "none"]

\* per-request state kept on the agent object: a step writes it for every
\* request being served
SetShared(h, rec) ==
  proc' = [g \in Handlers |-> IF proc[g].pc = "idle" THEN proc[g] ELSE rec]

\* pipeline state is local to one call of Orchestrate (locals of orchestrate,
\* the state threaded through one Invoke): a step writes one request's state
SetLocal(h, rec) == proc' = [proc EXCEPT ![h] = rec]

\* the worker a pipeline position calls
WorkerOf(pc) ==
  CASE pc \in {"research", "adk_research"} -> "research"
    [] pc \in {"synthesis", "adk_synthesis"} -> "synthesis"
    [] pc \in {"verification", "adk_verification"} -> "verification"
    [] OTHER -> "none"

\* callResearchAgent / callSynthesisAgent / callVerificationAgent up to the
\* point where PostJSON has issued its single client.Do
CallWorker(h) ==
  LET p == proc[h] IN
  /\ WorkerOf(p.pc) # "none"
  /\ p.inflight = "none"
  /\ SetLocal(h, [p EXCEPT !.inflight = WorkerOf(p.pc),
                      !.attempts = 1,
                      !.called = @ \cup {WorkerOf(p.pc)},
                      !.researchCalls =
                         IF WorkerOf(p.pc) = "research" THEN @ + 1 ELSE @])
  /\ UNCHANGED <<pages, call>>

\* ------------------------------------------------------- Eino orchestrator

\* edges of buildWorkflowGraph
EdgeSkipResearch(node) ==
  CASE node = "START" -> "validate_input"
    [] node = "validate_input" -> "synthesis"
    [] node = "research" -> "synthesis"
    [] node = "synthesis" -> "verification"
    [] node = "verification" -> "check_quality"
    [] node = "check_quality" -> "retry_research"
    [] node = "retry_research" -> "format_response"
    [] node = "format_response" -> "END"

Edge(node) ==
  CASE node = "START" -> "validate_input"
    [] node = "validate_input" -> "research"
    [] node = "research" -> "synthesis"
    [] node = "synthesis" -> "verification"
    [] node = "verification" -> "check_quality"
    [] node = "check_quality" -> "retry_research"
    [] node = "retry_research" -> "format_response"
    [] node = "format_response" -> "END"

\* validateInputLambda: defaults only
validateInputLambda(req) ==
  [req EXCEPT !.min = IF @ = 0 THEN DefaultMinVerifiedStats ELSE @,
              !.max = IF @ = 0 THEN DefaultMaxCandidates ELSE @]

\* qualityCheckLambda
qualityCheckLambda(p) ==
  [p EXCEPT !.needMore = Len(p.verified) < p.req.min,
            !.shortfall = p.req.min - Len(p.verified)]

\* retryResearchLambda: returns decision.State on both branches
retryResearchLambda(p) == p

\* formatResponseLambda
formatResponseLambda(p) ==
  [topic |-> p.req.topic,
   statistics |-> p.verified,
   total_candidates |-> Len(p.allCandidates),
   verified_count |-> Len(p.verified),
   failed_count |-> p.failed,
   partial |-> Len(p.verified) < p.req.min,
   target_count |-> p.req.min]

\* EinoFail that logs the error and lets the graph go on
EinoFailSwallowed(p, w) ==
  [p EXCEPT !.pc = Edge(p.pc), !.inflight = "none", !.lastFailed = w]

\* a node returned an error: Invoke fails, Orchestrate returns the error and
\* HandleOrchestrationRequest answers 500
EinoFail(p, w) ==
  [p EXCEPT !.pc = "done", !.status = StatusInternalServerError,
            !.inflight = "none", !.lastFailed = w]

\* EinoOrchestrationAgent.HandleOrchestrationRequest up to graph START
EinoHandle(h) ==
  LET p == proc[h] IN
  /\ p.pc = "handler" /\ p.impl = "eino"
  /\ \E decoded \in BOOLEAN :
       IF decoded
         THEN SetLocal(h, [p EXCEPT !.pc = Edge("START")])
         ELSE SetLocal(h, [p EXCEPT !.pc = "done", !.status = StatusBadRequest])
  /\ UNCHANGED <<pages, call>>

EinoValidateInput(h) ==
  LET p == proc[h] IN
  /\ p.pc = "validate_input" /\ p.impl = "eino"
  /\ SetLocal(h, [p EXCEPT !.req = validateInputLambda(p.req),
                      !.pc = Edge("validate_input")])
  /\ UNCHANGED <<pages, call>>

\* researchLambda after callResearchAgent returns
EinoResearchReturn(h) ==
  LET p == proc[h] IN
  /\ p.pc = "research" /\ p.inflight = "research"
  /\ \E outcome \in Outcomes :
       IF PostJSON(outcome) = "error"
         THEN SetLocal(h, EinoFail(p, "research"))
         ELSE \E out \in ResearchOutputs :
                SetLocal(h, [p EXCEPT !.searchResults = out,
                                 !.inflight = "none", !.lastFailed = "none",
                                 !.stage = "research", !.researchOK = TRUE,
                                 !.pc = Edge("research")])
  /\ UNCHANGED <<pages, call>>

\* synthesisLambda after callSynthesisAgent returns
EinoSynthesisReturn(h) ==
  LET p == proc[h] IN
  /\ p.pc = "synthesis" /\ p.inflight = "synthesis"
  /\ \E outcome \in Outcomes :
       IF PostJSON(outcome) = "error"
         THEN SetLocal(h, EinoFail(p, "synthesis"))
         ELSE \E out \in SynthOutputs(p.searchResults, p.req.max) :
                SetLocal(h, [p EXCEPT !.candidates = out,
                                 !.inflight = "none", !.lastFailed = "none",
                                 !.stage = "synthesis",
                                 !.pc = Edge("synthesis")])
  /\ UNCHANGED <<pages, call>>

\* verificationLambda after callVerificationAgent returns
EinoVerificationReturn(h) ==
  LET p == proc[h] IN
  /\ p.pc = "verification" /\ p.inflight = "verification"
  /\ \E outcome \in Outcomes :
       IF PostJSON(outcome) = "error"
         THEN SetLocal(h, EinoFail(p, "verification"))
         ELSE LET resp == Verify(p.candidates) IN
              SetLocal(h, [p EXCEPT !.allCandidates = p.candidates,
                               !.searchResults = <<>>,
                               !.candidates = <<>>,
                               !.verified = VerifiedOf(resp.results),
                               !.seenVerified = @ \o ReportedVerified(resp.results),
                               !.failed = resp.failed,
                               !.inflight = "none", !.lastFailed = "none",
                               !.stage = "verification",
                               !.pc = Edge("verification")])
  /\ UNCHANGED <<pages, call>>

EinoCheckQuality(h) ==
  LET p == proc[h] IN
  /\ p.pc = "check_quality" /\ p.impl = "eino"
  /\ SetLocal(h, [qualityCheckLambda(p) EXCEPT !.pc = Edge("check_quality")])
  /\ UNCHANGED <<pages, call>>

EinoRetryResearch(h) ==
  LET p == proc[h] IN
  /\ p.pc = "retry_research" /\ p.impl = "eino"
  /\ SetLocal(h, [retryResearchLambda(p) EXCEPT !.pc = Edge("retry_research")])
  /\ UNCHANGED <<pages, call>>

\* format_response, END, and the handler's 200 answer
EinoFormatResponse(h) ==
  LET p == proc[h] IN
  /\ p.pc = "format_response" /\ p.impl = "eino"
  /\ Edge("format_response") = "END"
  /\ SetLocal(h, [p EXCEPT !.resp = <<formatResponseLambda(p)>>,
                      !.status = StatusOK,
                      !.pc = "done"])
  /\ UNCHANGED <<pages, call>>

\* -------------------------------------------------------- ADK orchestrator

Max2(a, b) == IF a > b THEN a ELSE b
Min2(a, b) == IF a < b THEN a ELSE b

\* "Set defaults" that leaves a target of zero alone
adkDefaultsKeepsZero(req) ==
  [req EXCEPT !.max = IF @ = 0 THEN DefaultMaxCandidates ELSE @]

\* HandleOrchestrationRequest: "Set defaults"
adkDefaults(req) ==
  [req EXCEPT !.min = IF @ = 0 THEN DefaultMinVerifiedStats ELSE @,
              !.max = IF @ = 0 THEN DefaultMaxCandidates ELSE @]

\* the for condition with the budget test off by one
loopConditionInclusive(p) == p.retry <= maxRetries /\ p.totalVerified < p.req.min

\* orchestrate: the for condition
loopCondition(p) == p.retry < maxRetries /\ p.totalVerified < p.req.min

\* orchestrate: candidatesLeft
candidatesLeft(p) == p.req.max - Len(p.allCandidates)

\* candidatesNeeded that is not cut to what is left
candidatesNeededUnclamped(p) == Max2(p.req.min - p.totalVerified, MinBuffer)

\* orchestrate: candidatesNeeded once clamped to the buffer and to what is left
candidatesNeeded(p) ==
  Min2(Max2(p.req.min - p.totalVerified, MinBuffer), candidatesLeft(p))

\* buildResponse that cuts the statistics to the target
buildResponseTruncated(p) ==
  [topic |-> p.req.topic,
   statistics |-> SubSeq(p.verified, 1, Min2(Len(p.verified), p.req.min)),
   total_candidates |-> Len(p.allCandidates),
   verified_count |-> p.totalVerified,
   failed_count |-> p.failed,
   partial |-> FALSE,
   target_count |-> 0]

\* orchestrate: "Build final response"; Partial and TargetCount are not set
buildResponse(p) ==
  [topic |-> p.req.topic,
   statistics |-> p.verified,
   total_candidates |-> Len(p.allCandidates),
   verified_count |-> p.totalVerified,
   failed_count |-> p.failed,
   partial |-> FALSE,
   target_count |-> 0]

\* adkContinue that returns the error to the handler instead
adkContinueAborts(p, w) ==
  [p EXCEPT !.pc = "done", !.status = StatusInternalServerError,
            !.inflight = "none", !.lastFailed = w]

\* orchestrate: a worker call failed: log, retry++, continue
adkContinue(p, w) ==
  [p EXCEPT !.retry = @ + 1, !.pc = "adk_loop",
            !.searchResults = <<>>, !.candidates = <<>>,
            !.inflight = "none", !.lastFailed = w]

\* OrchestrationAgent.HandleOrchestrationRequest up to the call of orchestrate
AdkHandle(h) ==
  LET p == proc[h] IN
  /\ p.pc = "handler" /\ p.impl = "adk"
  /\ \E decoded \in BOOLEAN :
       IF decoded
         THEN SetLocal(h, [p EXCEPT !.req = adkDefaults(p.req), !.pc = "adk_loop"])
         ELSE SetLocal(h, [p EXCEPT !.pc = "done", !.status = StatusBadRequest])
  /\ UNCHANGED <<pages, call>>

\* orchestrate: loop head up to the research request
AdkLoop(h) ==
  LET p == proc[h] IN
  /\ p.pc = "adk_loop"
  /\ IF loopCondition(p) /\ candidatesLeft(p) > 0
       THEN SetLocal(h, [p EXCEPT !.candidatesNeeded = candidatesNeeded(p),
                             !.stage = "none", !.lastFailed = "none",
                             !.pc = "adk_research"])
       ELSE SetLocal(h, [p EXCEPT !.lastFailed = "none", !.pc = "adk_build"])
  /\ UNCHANGED <<pages, call>>

AdkResearchReturn(h) ==
  LET p == proc[h] IN
  /\ p.pc = "adk_research" /\ p.inflight = "research"
  /\ \E outcome \in Outcomes :
       IF PostJSON(outcome) = "error"
         THEN SetLocal(h, adkContinue(p, "research"))
         ELSE \E out \in ResearchOutputs :
                SetLocal(h, [p EXCEPT !.searchResults = out,
                                 !.inflight = "none", !.lastFailed = "none",
                                 !.stage = "research", !.researchOK = TRUE,
                                 !.pc = "adk_synthesis"])
  /\ UNCHANGED <<pages, call>>

AdkSynthesisReturn(h) ==
  LET p == proc[h] IN
  /\ p.pc = "adk_synthesis" /\ p.inflight = "synthesis"
  /\ \E outcome \in Outcomes :
       IF PostJSON(outcome) = "error"
         THEN SetLocal(h, adkContinue(p, "synthesis"))
         ELSE \E out \in SynthOutputs(p.searchResults, p.req.max) :
                SetLocal(h, [p EXCEPT !.candidates = out,
                                 !.allCandidates = @ \o out,
                                 !.inflight = "none", !.lastFailed = "none",
                                 !.stage = "synthesis",
                                 !.pc = "adk_verification"])
  /\ UNCHANGED <<pages, call>>

\* "Collect verified statistics" that puts the new statistics first
collectVerifiedPrepends(verifiedStatistics, results) ==
  VerifiedOf(results) \o verifiedStatistics

\* orchestrate: "Collect verified statistics"
collectVerified(verifiedStatistics, results) ==
  verifiedStatistics \o VerifiedOf(results)

\* orchestrate: verification answer, "Collect verified statistics", target check
AdkVerificationReturn(h) ==
  LET p == proc[h] IN
  /\ p.pc = "adk_verification" /\ p.inflight = "verification"
  /\ \E outcome \in Outcomes :
       IF PostJSON(outcome) = "error"
         THEN SetLocal(h, adkContinue(p, "verification"))
         ELSE LET resp == Verify(p.candidates)
                  got == VerifiedOf(resp.results)
                  q == [p EXCEPT !.verified = collectVerified(@, resp.results),
                                 !.totalVerified = @ + Len(got),
                                 !.failed = @ + (Len(resp.results) - Len(got)),
                                 !.seenVerified =
                                    @ \o ReportedVerified(resp.results),
                                 !.inflight = "none", !.lastFailed = "none",
                                 !.stage = "verification"] IN
              IF q.totalVerified >= q.req.min
                THEN SetLocal(h, [q EXCEPT !.pc = "adk_build"])
                ELSE SetLocal(h, [q EXCEPT !.retry = @ + 1, !.pc = "adk_loop",
                                      !.searchResults = <<>>,
                                      !.candidates = <<>>])
  /\ UNCHANGED <<pages, call>>

\* orchestrate that returns an error when the target was missed
AdkBuildFailsBelowTarget(h) ==
  LET p == proc[h] IN
  /\ p.pc = "adk_build"
  /\ IF p.totalVerified < p.req.min
       THEN SetLocal(h, [p EXCEPT !.status = StatusInternalServerError,
                             !.pc = "done"])
       ELSE SetLocal(h, [p EXCEPT !.resp = <<buildResponse(p)>>,
                             !.status = StatusOK,
                             !.pc = "done"])
  /\ UNCHANGED <<pages, call>>

\* orchestrate: final response; the handler answers 200
AdkBuild(h) ==
  LET p == proc[h] IN
  /\ p.pc = "adk_build"
  /\ SetLocal(h, [p EXCEPT !.resp = <<buildResponse(p)>>,
                      !.status = StatusOK,
                      !.pc = "done"])
  /\ UNCHANGED <<pages, call>>

\* ----------------------------------------------------------- specification

\* one request, served by either orchestrator, against any web
Init ==
  /\ pages \in Worlds
  /\ call = NoCall
  /\ \E impl \in Impls, req \in Requests :
       proc = [h \in Handlers |-> IF h = "h1" THEN Fresh(impl, req) ELSE Idle]

EinoStep(h) ==
  \/ EinoHandle(h)
  \/ EinoValidateInput(h)
  \/ EinoResearchReturn(h)
  \/ EinoSynthesisReturn(h)
  \/ EinoVerificationReturn(h)
  \/ EinoCheckQuality(h)
  \/ EinoRetryResearch(h)
  \/ EinoFormatResponse(h)

AdkStep(h) ==
  \/ AdkHandle(h)
  \/ AdkLoop(h)
  \/ AdkResearchReturn(h)
  \/ AdkSynthesisReturn(h)
  \/ AdkVerificationReturn(h)
  \/ AdkBuild(h)

Next == \E h \in Handlers : CallWorker(h) \/ EinoStep(h) \/ AdkStep(h)

Spec == Init /\ [][Next]_vars

\* two requests with the same contents arrive together at the Eino
\* orchestrator; net/http serves each on its own goroutine
InitConc ==
  /\ pages \in Worlds
  /\ call = NoCall
  /\ \E req \in {r \in Requests : r.topic # "" /\ r.max = r.min} :
       proc = [h \in Handlers |-> Fresh("eino", req)]

NextConc == \E h \in Handlers : CallWorker(h) \/ EinoStep(h)

SpecConc == InitConc /\ [][NextConc]_vars

\* ------------------------------------------------------ the worker handlers

\* the answer of a worker handler to a request that does not reach its logic
Rejected(fn, arrival) ==
  [fn |-> fn,
   status |-> IF arrival = "bad_method" THEN StatusMethodNotAllowed
              ELSE StatusBadRequest]

\* HandleVerificationRequest of the ADK verification agent
HandleVerificationRequest ==
  /\ call = NoCall
  /\ \E arrival \in Arrivals :
       IF arrival # "ok"
         THEN call' = Rejected("verify", arrival)
         ELSE \E candidates \in SeqsUpTo(WorkerCandidates, MaxVerify) :
                LET resp == Verify(candidates) IN
                call' = [fn |-> "verify", status |-> StatusOK,
                         candidates |-> candidates,
                         results |-> resp.results,
                         verified |-> resp.verified,
                         failed |-> resp.failed]
  /\ UNCHANGED <<proc, pages>>

\* HandleVerificationRequest of the trpc verification agent
HandleVerificationRequestTrpc ==
  /\ call = NoCall
  /\ \E arrival \in Arrivals :
       IF arrival # "ok"
         THEN call' = Rejected("verify_trpc", arrival)
         ELSE \E candidates \in SeqsUpTo(TrpcCandidates, MaxVerify) :
                \E answers \in [1..Len(candidates) -> LLMAnswers] :
                  LET resp == VerifyTrpc(candidates, answers) IN
                  call' = [fn |-> "verify_trpc", status |-> StatusOK,
                           candidates |-> candidates,
                           answers |-> answers,
                           results |-> resp.results,
                           verified |-> resp.verified,
                           failed |-> resp.failed]
  /\ UNCHANGED <<proc, pages>>

\* HandleSynthesisRequest
synthesisHandler(requests, outputs) ==
  /\ call = NoCall
  /\ \E arrival \in Arrivals :
       IF arrival # "ok"
         THEN call' = Rejected("synthesize", arrival)
         ELSE \E req \in requests, llm \in outputs :
                call' = [fn |-> "synthesize", status |-> StatusOK,
                         req |-> req, llm |-> llm,
                         candidates |-> Synthesize(synthesisDefaults(req), llm)]
  /\ UNCHANGED <<proc, pages>>

\* HandleSynthesisRequest on short result lists
HandleSynthesisRequest == synthesisHandler(SynthesisRequests, UniformLLMOutputs)

\* HandleSynthesisRequest on result lists of 15 pages and more
HandleLongSynthesisRequest == synthesisHandler(LongSynthesisRequests, LLMOutputs)

\* the answer is written and the handler returns
WorkerReturn ==
  /\ call # NoCall
  /\ call' = NoCall
  /\ UNCHANGED <<proc, pages>>

\* one request for the largest target against a web where every page holds
\* the excerpt, so that statistics of different sources reach the list
InitOrder ==
  /\ pages = [u \in URLs |-> <<"1", "x", "1">>]
  /\ call = NoCall
  /\ \E impl \in Impls, req \in {r \in Requests : r.min = MaxTarget} :
       proc = [h \in Handlers |-> IF h = "h1" THEN Fresh(impl, req) ELSE Idle]

SpecOrder == InitOrder /\ [][Next]_vars

\* the workers serve requests one after another against any web
InitWorkers ==
  /\ pages \in AllWorlds
  /\ proc = [h \in Handlers |-> Idle]
  /\ call = NoCall

NextWorkers ==
  \/ HandleVerificationRequest
  \/ HandleVerificationRequestTrpc
  \/ HandleSynthesisRequest
  \/ WorkerReturn

SpecWorkers == InitWorkers /\ [][NextWorkers]_vars

\* the Synthesis worker serves long result lists against any web
NextPages ==
  \/ HandleLongSynthesisRequest
  \/ WorkerReturn

SpecPages == InitWorkers /\ [][NextPages]_vars

\* ---- Helm values validation (pkg/helm/values.go)

\* the struct tags of ServiceConfig: omitempty,min=1,max=65535 on both ports
structValidation(values) ==
  LET agents == <<"research", "synthesis", "verification", "orchestration", "direct">>
      bad(port) == port # 0 /\ (port < 1 \/ port > MaxPortNumber)
      portErr(n) == IF bad(values[n].port)
                      THEN <<<<"field failed validation", n, "Port">>>> ELSE <<>>
      a2aErr(n) == IF bad(values[n].a2aPort)
                     THEN <<<<"field failed validation", n, "A2APort">>>> ELSE <<>>
      RECURSIVE each(_)
      each(i) == IF i > Len(agents) THEN <<>>
                 ELSE portErr(agents[i]) \o a2aErr(agents[i]) \o each(i + 1) IN
  each(1)

\* the core-agent rule that only looks at the research agent
coreAgentErrorsResearchOnly(values) ==
  IF values.orchestration.enabled
    THEN IF ~values.research.enabled
           THEN <<<<"research agent must be enabled when orchestration is enabled">>>>
           ELSE <<>>
    ELSE <<>>

\* validateBusinessRules: "Check that at least the core agents are enabled"
coreAgentErrors(values) ==
  IF values.orchestration.enabled
    THEN (IF ~values.research.enabled
            THEN <<<<"research agent must be enabled when orchestration is enabled">>>>
            ELSE <<>>)
         \o (IF ~values.synthesis.enabled
               THEN <<<<"synthesis agent must be enabled when orchestration is enabled">>>>
               ELSE <<>>)
         \o (IF ~values.verification.enabled
               THEN <<<<"verification agent must be enabled when orchestration is enabled">>>>
               ELSE <<>>)
    ELSE <<>>

\* validateBusinessRules: the agentPorts list
agentPorts(values) ==
  <<[name |-> "research", config |-> values.research],
    [name |-> "synthesis", config |-> values.synthesis],
    [name |-> "verification", config |-> values.verification],
    [name |-> "orchestration", config |-> values.orchestration],
    [name |-> "direct", config |-> values.direct]>>

\* ports[port] = name
Put(ports, port, name) ==
  [x \in DOMAIN ports \cup {port} |-> IF x = port THEN name ELSE ports[x]]

\* validateBusinessRules: the loop over agentPorts from agent i on; ports is
\* the map from port to the name that took it
RECURSIVE portLoop(_, _, _, _)
portLoop(agents, i, ports, errs) ==
  IF i > Len(agents) THEN errs
  ELSE LET agent == agents[i]
           port == agent.config.port
           a2a == agent.config.a2aPort IN
       IF ~agent.config.enabled THEN portLoop(agents, i + 1, ports, errs)
       ELSE IF port = 0 THEN portLoop(agents, i + 1, ports, errs)
       ELSE LET errs1 == IF port \in DOMAIN ports
                           THEN Append(errs, <<"port conflict", ports[port],
                                               agent.name, port>>)
                           ELSE errs
                ports1 == Put(ports, port, agent.name) IN
            IF a2a > 0
              THEN LET errs2 == IF a2a \in DOMAIN ports1
                                  THEN Append(errs1,
                                              <<"port conflict", ports1[a2a],
                                                agent.name \o " A2A", a2a>>)
                                  ELSE errs1 IN
                   portLoop(agents, i + 1,
                            Put(ports1, a2a, agent.name \o " A2A"), errs2)
              ELSE portLoop(agents, i + 1, ports1, errs1)

\* validateBusinessRules: "Validate port conflicts"
portConflictErrors(values) == portLoop(agentPorts(values), 1, <<>>, <<>>)

\* validateBusinessRules: "Validate ingress host is set"
ingressErrors(values) ==
  IF values.ingress.enabled /\ values.ingress.host = ""
    THEN <<<<"ingress.host must be set when ingress is enabled">>>>
    ELSE <<>>

\* Validator.validateBusinessRules; the secrets check adds no error
validateBusinessRules(values) ==
  coreAgentErrors(values) \o portConflictErrors(values) \o ingressErrors(values)

\* Validator.ValidateWithContext
ValidateWithContext ==
  /\ call = NoCall
  /\ \E values \in HelmValues :
       call' = [fn |-> "validate", values |-> values,
                errs |-> structValidation(values)
                           \o validateBusinessRules(values)]
  /\ UNCHANGED <<proc, pages>>

\* a values file is validated, then the next one
InitHelm ==
  /\ pages \in Worlds
  /\ pages["u2"] = FetchFailed
  /\ proc = [h \in Handlers |-> Idle]
  /\ call = NoCall

NextHelm ==
  \/ ValidateWithContext
  \/ WorkerReturn

SpecHelm == InitHelm /\ [][NextHelm]_vars

TypeOK ==
  /\ pages \in AllWorlds
  /\ call.fn \in {"none", "verify", "verify_trpc", "synthesize", "validate"}
  /\ \A h \in Handlers :
       /\ proc[h].impl \in Impls
       /\ proc[h].status \in {0, StatusOK, StatusBadRequest, StatusInternalServerError}
       /\ Len(proc[h].resp) <= 1
       /\ proc[h].inflight \in Workers \cup {"none"}

\* ------------------------------------------------------------------ claims

Responded(h) == proc[h].pc = "done" /\ proc[h].resp # <<>>
Response(h) == proc[h].resp[1]
NoWorkerCalled(h) == proc[h].called = {}

\* excerpt occurs in body as a contiguous run, stated position by position
OccursIn(excerpt, body) ==
  \E i \in 1..Len(body) :
    \A j \in 1..Len(excerpt) :
      i + j - 1 <= Len(body) /\ body[i + j - 1] = excerpt[j]

C2_CountsAddUp ==
  \A h \in Handlers :
    Responded(h) =>
      Response(h).verified_count + Response(h).failed_count
        = Response(h).total_candidates

\* C3: in every response partial is true exactly when verified_count is
\* below target_count, and target_count is the defaulted min_verified_stats
C3_PartialAndTarget ==
  \A h \in Handlers :
    Responded(h) =>
      /\ Response(h).partial
           = (Response(h).verified_count < Response(h).target_count)
      /\ Response(h).target_count = validateInputLambda(proc[h].fingerprint).min

\* C4: a request with an empty topic, or with max_candidates below
\* min_verified_stats after defaulting, is answered 400 and calls no worker
InvalidRequest(req) ==
  \/ req.topic = ""
  \/ validateInputLambda(req).max < validateInputLambda(req).min

C4_InvalidInputRejected ==
  \A h \in Handlers :
    (proc[h].pc # "idle" /\ InvalidRequest(proc[h].fingerprint)) =>
      /\ NoWorkerCalled(h)
      /\ proc[h].pc = "done" => proc[h].status = StatusBadRequest

\* the Research worker was called and never answered successfully
ResearchOutage(h) ==
  /\ proc[h].pc = "done"
  /\ proc[h].researchCalls >= 1
  /\ ~proc[h].researchOK

C6_ThreeAttemptsBeforeFailure ==
  \A h \in Handlers :
    proc[h].lastFailed # "none" => proc[h].attempts = 3

C8_StagesInOrder ==
  \A h \in Handlers :
    /\ proc[h].inflight = "research" => proc[h].stage = "none"
    /\ proc[h].inflight = "synthesis" => proc[h].stage = "research"
    /\ proc[h].inflight = "verification" => proc[h].stage = "synthesis"

C8_Witness ==
  \E h \in Handlers :
    /\ proc[h].inflight = "verification"
    /\ proc[h].retry >= 1

InProgress(h) == proc[h].pc \notin {"idle", "handler", "done"}

\* C9 as stated: at most one pipeline execution per fingerprint is in progress
C9_SingleFlight ==
  \A g, h \in Handlers :
    (g # h /\ proc[g].fingerprint = proc[h].fingerprint) =>
      ~(InProgress(g) /\ InProgress(h))

\* C9 amended: requests with the same fingerprint are each served by their
\* own pipeline execution; the executions may be in progress together and
\* a step of one leaves the state of the other unchanged
C9_IndependentExecutions ==
  [][\E h \in Handlers : \A g \in Handlers \ {h} : proc'[g] = proc[g]]_vars

C9_Witness ==
  \E g, h \in Handlers :
    /\ g # h
    /\ proc[g].fingerprint = proc[h].fingerprint
    /\ proc[g].inflight = "verification"
    /\ proc[h].inflight = "synthesis"

\* the retry budget of a request is used up: three Research calls were made,
\* or no candidate budget is left
BudgetExhausted(h) ==
  \/ proc[h].researchCalls >= maxRetries
  \/ proc[h].req.max - Response(h).total_candidates <= 0

\* C10: a response below target is returned only when the retry budget is
\* exhausted; while budget remains another pass is run
C10_RetryUntilBudgetExhausted ==
  \A h \in Handlers :
    (Responded(h) /\ Response(h).verified_count < proc[h].req.min) =>
      BudgetExhausted(h)

\* C11: within one request the Research worker is called at most 3 times,
\* whatever the workers answer: every pass of the ADK loop that calls it ends
\* with retry++ or leaves the loop, so the calls never outnumber retry + 1
\* and retry never passes 3; the Eino graph calls it once
C11_AtMostThreeResearchCalls ==
  \A h \in Handlers :
    /\ proc[h].researchCalls <= maxRetries
    /\ proc[h].retry <= maxRetries
    /\ proc[h].researchCalls <= proc[h].retry + 1
    /\ proc[h].impl = "eino" => proc[h].researchCalls <= 1

C11_Witness ==
  \E h \in Handlers :
    /\ Responded(h)
    /\ proc[h].researchCalls = maxRetries
    /\ proc[h].called = Workers
    /\ Response(h).failed_count >= 1

\* the candidates gathered before the pass whose candidates are in flight
EarlierCandidates(h) ==
  SubSeq(proc[h].allCandidates, 1,
         Len(proc[h].allCandidates) - Len(proc[h].candidates))

\* C12: a candidate of a later pass whose (source_url, excerpt) pair is
\* already among the candidates of the earlier passes is not sent to the
\* Verification worker
C12_DuplicatesDropped ==
  \A h \in Handlers :
    proc[h].inflight = "verification" =>
      \A i \in 1..Len(proc[h].candidates) :
        \A j \in 1..Len(EarlierCandidates(h)) :
          ~(/\ EarlierCandidates(h)[j].source_url = proc[h].candidates[i].source_url
            /\ EarlierCandidates(h)[j].excerpt = proc[h].candidates[i].excerpt)

\* C13: in every response verified_count <= total_candidates and
\* total_candidates <= max_candidates * 3
C13_CandidateCeiling ==
  \A h \in Handlers :
    Responded(h) =>
      /\ Response(h).verified_count <= Response(h).total_candidates
      /\ Response(h).total_candidates <= proc[h].req.max * maxRetries

\* C14: the statistics of a response are exactly the statistics the
\* Verification worker reported as verified during the request, in the order
\* reported; the list is as long as verified_count and is not cut to
\* min_verified_stats
C14_AllVerifiedReturned ==
  \A h \in Handlers :
    Responded(h) =>
      /\ Response(h).statistics = proc[h].seenVerified
      /\ Len(Response(h).statistics) = Response(h).verified_count

C14_Witness ==
  \E h \in Handlers :
    /\ Responded(h)
    /\ proc[h].impl = "adk"
    /\ proc[h].retry >= 1
    /\ Response(h).verified_count > proc[h].req.min

\* a synthesis request was answered
Synthesized == call.fn = "synthesize" /\ call.status = StatusOK

\* a verification request was answered, by either verification agent
VerifyAnswered == call.fn \in {"verify", "verify_trpc"} /\ call.status = StatusOK

\* the fetch of candidate i's source failed
FetchFails(i) == pages[call.candidates[i].source_url] \in FetchErrors

\* C15: every candidate in the answer of Synthesize has a non-empty excerpt
\* and a non-zero value, whatever items the LLM listed
C15_NoEmptyCandidates ==
  Synthesized =>
    \A i \in 1..Len(call.candidates) :
      /\ call.candidates[i].excerpt # <<>>
      /\ call.candidates[i].value # 0

C15_Witness ==
  /\ Synthesized
  /\ call.llm["u1"][1] = "items"
  /\ \E i \in 1..Len(call.llm["u1"][2]) :
       call.llm["u1"][2][i].excerpt = <<>> /\ call.llm["u1"][2][i].value # 0
  /\ Len(call.candidates) >= 1

\* C16: Verify answers with one result per candidate and result i is about
\* candidate i
C16_ResultsInInputOrder ==
  VerifyAnswered =>
    /\ Len(call.results) = Len(call.candidates)
    /\ \A i \in 1..Len(call.candidates) :
         /\ call.results[i].statistic.source_url = call.candidates[i].source_url
         /\ call.results[i].statistic.excerpt = call.candidates[i].excerpt
         /\ call.results[i].statistic.value = call.candidates[i].value

C16_Witness ==
  /\ VerifyAnswered
  /\ call.fn = "verify"
  /\ Len(call.candidates) = 2
  /\ call.candidates[1].source_url # call.candidates[2].source_url
  /\ FetchFails(1)
  /\ call.results[2].verified

\* the text of a candidate's value: the ADK agent's models carry a number,
\* the trpc agent's models carry the text
FormatValue(v) == <<ToString(v)>>
ValueText(i) ==
  IF call.fn = "verify" THEN FormatValue(call.candidates[i].value)
  ELSE call.candidates[i].value

\* text occurs in body within the context window around the first
\* occurrence of excerpt
InWindow(text, excerpt, body) ==
  \E m \in 1..Len(body) :
    /\ \A j \in 1..Len(excerpt) :
         m + j - 1 <= Len(body) /\ body[m + j - 1] = excerpt[j]
    /\ \A n \in 1..(m - 1) :
         \E j \in 1..Len(excerpt) :
           n + j - 1 > Len(body) \/ body[n + j - 1] # excerpt[j]
    /\ \E k \in 1..Len(body) :
         /\ k >= m - contextWindow
         /\ k + Len(text) - 1 <= m + Len(excerpt) - 1 + contextWindow
         /\ \A j \in 1..Len(text) :
              k + j - 1 <= Len(body) /\ body[k + j - 1] = text[j]

\* C17: a result is verified only if its source was fetched, the excerpt
\* occurs in the body, and the text of the value occurs within the context
\* window around the first occurrence of the excerpt
C17_VerifiedNeedsValue ==
  VerifyAnswered =>
    \A i \in 1..Len(call.results) :
      call.results[i].verified =>
        /\ ~FetchFails(i)
        /\ OccursIn(call.candidates[i].excerpt,
                    pages[call.candidates[i].source_url])
        /\ InWindow(ValueText(i), call.candidates[i].excerpt,
                    pages[call.candidates[i].source_url])

\* C18: a candidate whose source cannot be fetched gets a result with
\* verified = false and a reason starting with "Failed to fetch source: ",
\* is counted as failed, and the other candidates are still verified: the
\* request is answered with one result per candidate
C18_FetchFailureIsAResult ==
  VerifyAnswered =>
    /\ Len(call.results) = Len(call.candidates)
    /\ call.verified + call.failed = Len(call.candidates)
    /\ call.failed >= Cardinality({i \in 1..Len(call.candidates) : FetchFails(i)})
    /\ \A i \in 1..Len(call.candidates) :
         IF FetchFails(i)
           THEN /\ ~call.results[i].verified
                /\ ~call.results[i].statistic.verified
                /\ Len(call.results[i].reason) = 2
                /\ call.results[i].reason[1] = "Failed to fetch source: "
                /\ <<call.results[i].reason[2]>>
                      = pages[call.candidates[i].source_url]
           ELSE call.fn = "verify" =>
                  call.results[i].verified
                    = OccursIn(call.candidates[i].excerpt,
                               pages[call.candidates[i].source_url])

C18_Witness ==
  /\ VerifyAnswered
  /\ call.fn = "verify"
  /\ Len(call.candidates) = 2
  /\ FetchFails(1)
  /\ pages[call.candidates[1].source_url] = FetchRefused
  /\ call.results[2].verified
  /\ call.failed = 1

\* C19: in every verification result the reason is non-empty exactly when
\* verified is false
C19_ReasonIffNotVerified ==
  VerifyAnswered =>
    \A i \in 1..Len(call.results) :
      (call.results[i].reason # <<>>) <=> ~call.results[i].verified

\* C20: when the excerpt is not in the body and the LLM fallback decides, a
\* result is verified only if the value occurs in the body
C20_FallbackNeedsValue ==
  (call.fn = "verify_trpc" /\ call.status = StatusOK) =>
    \A i \in 1..Len(call.results) :
      (/\ ~FetchFails(i)
       /\ ~OccursIn(call.candidates[i].excerpt,
                    pages[call.candidates[i].source_url])
       /\ call.results[i].verified) =>
        OccursIn(call.candidates[i].value, pages[call.candidates[i].source_url])

\* C21: a Synthesize call in which the LLM could be contacted for none of
\* the pages it fetched is answered with an error, never with a successful
\* response
C21_LLMOutageIsError ==
  (/\ call.fn = "synthesize"
   /\ "llm" \in DOMAIN call
   /\ \A u \in URLs : call.llm[u] = <<"error">>
   /\ \E i \in 1..Len(call.req.searchResults) :
        ~FetchURL(call.req.searchResults[i]).err) =>
    call.status = StatusInternalServerError

Validated == call.fn = "validate"

\* the validation errors that are port conflicts
PortConflicts == {i \in 1..Len(call.errs) : call.errs[i][1] = "port conflict"}

\* the configured ports of the enabled agents, one slot per service port and
\* per A2A port
PortSlots ==
  {<<n, "service">> : n \in {m \in AgentNames : call.values[m].enabled
                                                 /\ call.values[m].port > 0}}
  \cup {<<n, "a2a">> : n \in {m \in AgentNames : call.values[m].enabled
                                                  /\ call.values[m].a2aPort > 0}}

PortOf(slot) ==
  IF slot[2] = "service" THEN call.values[slot[1]].port
  ELSE call.values[slot[1]].a2aPort

\* C23: validation reports "<agent> agent must be enabled when orchestration
\* is enabled" for research, synthesis and verification exactly when
\* orchestration is enabled and that agent is disabled
C23_CoreAgentsRequired ==
  Validated =>
    \A n \in {"research", "synthesis", "verification"} :
      (<<n \o " agent must be enabled when orchestration is enabled">>
         \in Range(call.errs))
        <=> (call.values.orchestration.enabled /\ ~call.values[n].enabled)

C23_Witness ==
  /\ Validated
  /\ call.values.orchestration.enabled
  /\ ~call.values.synthesis.enabled
  /\ call.values.research.enabled
  /\ <<"synthesis agent must be enabled when orchestration is enabled">>
       \in Range(call.errs)
  /\ Len(call.errs) >= 2

\* C24: validation reports a port conflict exactly when two configured ports
\* among the service ports and A2A ports of the enabled agents are equal
C24_PortConflictIff ==
  Validated =>
    ((PortConflicts # {})
       <=> \E s, t \in PortSlots : s # t /\ PortOf(s) = PortOf(t))

\* search result i of the synthesis call was fetched and read by the LLM
PageRead(i) ==
  /\ pages[call.req.searchResults[i]] \notin FetchErrors
  /\ call.llm[call.req.searchResults[i]][1] = "items"

\* the candidates search result i contributes: the items the LLM listed for
\* its page that have a value and an excerpt
PageCandidates(i) ==
  IF PageRead(i)
    THEN LET url == call.req.searchResults[i]
             items == SelectSeq(call.llm[url][2],
                                LAMBDA e : e.value # 0 /\ e.excerpt # <<>>) IN
         [j \in 1..Len(items) |->
            [source_url |-> url, excerpt |-> items[j].excerpt,
             value |-> items[j].value]]
    ELSE <<>>

\* the candidates of search results 1..k, in encounter order
RECURSIVE CandidatesUpTo(_)
CandidatesUpTo(k) ==
  IF k = 0 THEN <<>> ELSE CandidatesUpTo(k - 1) \o PageCandidates(k)

\* pages_processed after search results 1..k
PagesProcessed(k) == Cardinality({i \in 1..k : PageRead(i)})

\* C25: the candidates of Synthesize are those of a prefix of search_results,
\* in encounter order; the prefix is the whole list unless pages_processed
\* reached 15 and the candidate count reached max_statistics or
\* 5 * min_statistics
C25_StoppingRule ==
  Synthesized =>
    LET req == synthesisDefaults(call.req) IN
    \E k \in 0..Len(req.searchResults) :
      /\ call.candidates = CandidatesUpTo(k)
      /\ k < Len(req.searchResults) =>
           /\ PagesProcessed(k) >= minPagesToProcess
           /\ \/ Len(call.candidates) >= req.MaxStatistics
              \/ Len(call.candidates) >= EarlyStopFactor * req.MinStatistics

C25_Witness ==
  /\ Synthesized
  /\ Len(call.candidates) < Len(CandidatesUpTo(Len(call.req.searchResults)))
  /\ Len(call.candidates)
       < EarlyStopFactor * synthesisDefaults(call.req).MinStatistics
  /\ \E i \in 1..Len(call.req.searchResults) : ~PageRead(i)

\* C26: after a retry attempt in which Synthesis found no new candidate, the
\* loop does not go on to another Research call
C26_NoResearchAfterEmptyRetry ==
  [][\A h \in Handlers :
       (/\ proc[h].pc = "adk_verification"
        /\ proc[h].retry >= 1
        /\ proc[h].candidates = <<>>) =>
         ~(/\ proc'[h].pc = "adk_loop"
           /\ loopCondition(proc'[h])
           /\ candidatesLeft(proc'[h]) > 0)]_vars

\* the ADK orchestrator is in a research attempt
Attempting(h) == proc[h].impl = "adk" /\ proc[h].pc = "adk_research"

VerifiedInOrder(statistics, results) ==
  LET hits == {i \in 1..Len(results) : results[i].verified} IN
  /\ Len(statistics) = Cardinality(hits)
  /\ \A j \in 1..Len(statistics) :
       \E i \in hits :
         /\ Cardinality({k \in hits : k < i}) = j - 1
         /\ statistics[j] = results[i].statistic

\* C28: the list of verified statistics only ever grows at its end, by the
\* verified results of the attempt that just returned, in the order the
\* Verification worker returned them, and the response carries that list
C28_AppendsInAttemptOrder ==
  [][\A h \in Handlers :
       LET old == proc[h].verified
           new == proc'[h].verified IN
       /\ Len(new) >= Len(old)
       /\ SubSeq(new, 1, Len(old)) = old
       /\ new # old =>
            /\ proc[h].pc \in {"adk_verification", "verification"}
            /\ VerifiedInOrder(SubSeq(new, Len(old) + 1, Len(new)),
                               Verify(proc[h].candidates).results)
       /\ (proc[h].resp = <<>> /\ proc'[h].resp # <<>>) =>
            proc'[h].resp[1].statistics = old]_vars

C28_Witness ==
  \E h \in Handlers :
    /\ Responded(h)
    /\ proc[h].impl = "adk"
    /\ Len(Response(h).statistics) = 3
    /\ Response(h).statistics[1].source_url = "u2"
    /\ Response(h).statistics[2].source_url = "u1"

\* C29: the ADK orchestrator never answers 500: a failed Research, Synthesis
\* or Verification call adds one to retry and goes back to the loop head, a
\* request that was decoded ends with a response and status 200, and when
\* Research failed on all 3 attempts that response has no statistics
C29_AdkNeverErrors ==
  [][\A h \in Handlers :
       proc'[h].impl = "adk" =>
         /\ proc'[h].status # StatusInternalServerError
         /\ (proc[h].inflight # "none" /\ proc'[h].lastFailed # "none") =>
              /\ proc'[h].lastFailed = proc[h].inflight
              /\ proc'[h].retry = proc[h].retry + 1
              /\ proc'[h].pc = "adk_loop"
         /\ (proc'[h].pc = "done" /\ proc'[h].status # StatusBadRequest) =>
              /\ proc'[h].status = StatusOK
              /\ proc'[h].resp # <<>>
              /\ (~proc'[h].researchOK /\ proc'[h].researchCalls >= 1) =>
                   /\ proc'[h].researchCalls = maxRetries
                   /\ proc'[h].resp[1].statistics = <<>>
                   /\ proc'[h].resp[1].total_candidates = 0]_vars

C29_Witness ==
  \E h \in Handlers :
    /\ Responded(h)
    /\ proc[h].impl = "adk"
    /\ proc[h].status = StatusOK
    /\ proc[h].retry = maxRetries
    /\ proc[h].researchCalls = maxRetries
    /\ proc[h].called = {"research"}
    /\ Response(h).statistics = <<>>

\* C30: in every answer of Verify, verified + failed is the number of results,
\* which is the number of candidates, and verified is the number of results
\* flagged verified; a request that reaches Verify is never answered 500
C30_CountsAddUp ==
  /\ call.fn \in {"verify", "verify_trpc"} =>
       /\ call.status # StatusInternalServerError
       /\ "candidates" \in DOMAIN call => call.status = StatusOK
  /\ VerifyAnswered =>
       /\ call.verified + call.failed = Len(call.results)
       /\ Len(call.results) = Len(call.candidates)
       /\ call.verified
            = Cardinality({i \in 1..Len(call.results) : call.results[i].verified})

C30_Witness ==
  /\ VerifyAnswered
  /\ call.fn = "verify_trpc"
  /\ Len(call.candidates) = 2
  /\ call.verified = 1
  /\ call.failed = 1
  /\ ~call.results[1].verified

====
